---- MODULE Spec2Model ----
(***************************************************************************)
(* Model of src/fetch_data.py: parse_activity_history (the event loop      *)
(* that reconstructs visits, then the statistics computed from them),      *)
(* format_duration and build_data_json.                                    *)
(*                                                                         *)
(* Conventions.                                                            *)
(*  - A Python Optional value is a tuple of length 0 or 1: None is <<>>,   *)
(*    a present value v is <<v>>.                                          *)
(*  - A datetime is its number of whole seconds since 1970-01-01T00:00Z,   *)
(*    a timedelta is a number of whole seconds.                            *)
(*  - A weight (a Python float parsed from a decimal label) is kept as an  *)
(*    exact number of tenths of a pound; arithmetic on floats is exact     *)
(*    arithmetic on the decimal values, and round() rounds the exact value *)
(*    half to even (the binary rounding error of floats is not modelled).  *)
(*  - A dict is the sequence of its entries in insertion order, which is   *)
(*    the order Python iterates it in.                                     *)
(***************************************************************************)
EXTENDS Integers, Sequences, FiniteSets, TLC

VARIABLES
    activities,              \* the argument of parse_activity_history (newest first)
    pc,                      \* "loop", "parsed", "built" or "raised"
    processed,               \* number of loop iterations completed
    visits,                  \* list[CatVisit]
    weights,                 \* list[float], in tenths of a pound
    clean_cycles_completed,
    sensor_interruptions,
    current_visit,           \* CatVisit | None
    cycle_start_time,        \* datetime | None
    stats,                   \* the dict parse_activity_history returns | None
    doc                      \* the dict build_data_json returns | None

vars == <<activities, pc, processed, visits, weights, clean_cycles_completed,
          sensor_interruptions, current_visit, cycle_start_time, stats, doc>>

loopVars == <<visits, weights, clean_cycles_completed, sensor_interruptions,
              current_visit, cycle_start_time>>

None == <<>>
Some(v) == <<v>>

(***************************************************************************)
(* Bounds of the model.                                                    *)
(***************************************************************************)
MaxEvents == 4          \* longest event log of Spec
MaxWeightEvents == 5    \* longest event log of SpecWeights
MaxVisitEvents == 6     \* longest event log of SpecVisits
MaxWeighInEvents == 5   \* longest event log of SpecWeighIn

(***************************************************************************)
(* Folds over sequences.                                                   *)
(***************************************************************************)
RECURSIVE Sum(_)
Sum(s) == IF s = <<>> THEN 0 ELSE Head(s) + Sum(Tail(s))

\* Python max(s) / min(s) of a non-empty sequence of numbers.
RECURSIVE Max(_)
Max(s) == IF Len(s) = 1 THEN s[1]
          ELSE LET m == Max(Tail(s)) IN IF s[1] >= m THEN s[1] ELSE m

RECURSIVE Min(_)
Min(s) == IF Len(s) = 1 THEN s[1]
          ELSE LET m == Min(Tail(s)) IN IF s[1] <= m THEN s[1] ELSE m

\* Python max(s, key=...): the first element whose key is maximal.
\* keys is the sequence of the keys of s, element by element.
LastMaxIndex(keys) ==
    CHOOSE k \in 1..Len(keys) :
        /\ \A j \in 1..Len(keys) : keys[j] <= keys[k]
        /\ \A j \in (k + 1)..Len(keys) : keys[j] < keys[k]
FirstMaxIndex(keys) ==
    CHOOSE k \in 1..Len(keys) :
        /\ \A j \in 1..Len(keys) : keys[j] <= keys[k]
        /\ \A j \in 1..(k - 1) : keys[j] < keys[k]

\* reversed(activities)
ReversedNone(s) == s
Reversed(s) == [k \in 1..Len(s) |-> s[Len(s) + 1 - k]]

\* Python round(num / den, 0) for den > 0 on exact rationals: to the nearest
\* integer, a tie to the even one.
RoundHalfEven(num, den) ==
    LET q == num \div den
        r == num % den
    IN  IF 2 * r < den THEN q
        ELSE IF 2 * r > den THEN q + 1
        ELSE IF q % 2 = 0 THEN q ELSE q + 1

(***************************************************************************)
(* Action labels.  str(action) is one of a finite universe of labels; the  *)
(* substring tests and the regular-expression search of the loop are       *)
(* tabulated over that universe.                                           *)
(***************************************************************************)
Patterns == {"CAT_DETECTED", "Pet Weight Recorded", "CLEAN_CYCLE:",
             "CLEAN_CYCLE_COMPLETE", "CAT_SENSOR_INTERRUPTED"}

\* The patterns that occur in action_str as substrings.
SubstringsOf(action_str) ==
    CASE action_str = "LitterBoxStatus.CAT_DETECTED" -> {"CAT_DETECTED"}
      [] action_str = "Pet Weight Recorded: 8.5 lbs" -> {"Pet Weight Recorded"}
      [] action_str = "Pet Weight Recorded: 10.0 lbs" -> {"Pet Weight Recorded"}
      [] action_str = "Pet Weight Recorded: 10.1 lbs" -> {"Pet Weight Recorded"}
      [] action_str = "Pet Weight Recorded: 10.3 lbs" -> {"Pet Weight Recorded"}
      [] action_str = "Pet Weight Recorded: ... lbs" -> {"Pet Weight Recorded"}
      [] action_str = "Pet Weight Recorded: 1.2.3 lbs" -> {"Pet Weight Recorded"}
      [] action_str = "Pet Weight Recorded" -> {"Pet Weight Recorded"}
      [] action_str = "CLEAN_CYCLE: started" -> {"CLEAN_CYCLE:"}
      [] action_str = "LitterBoxStatus.CLEAN_CYCLE_COMPLETE" -> {"CLEAN_CYCLE_COMPLETE"}
      [] action_str = "LitterBoxStatus.CAT_SENSOR_INTERRUPTED" -> {"CAT_SENSOR_INTERRUPTED"}
      [] OTHER -> {}

Contains(action_str, pattern) == pattern \in SubstringsOf(action_str)

\* re.search(r"([\d.]+)\s*lbs", action_str): match.group(1) as a sequence of
\* characters, or None when nothing matches.
ReSearchLbs(action_str) ==
    CASE action_str = "Pet Weight Recorded: 8.5 lbs" -> Some(<<"8", ".", "5">>)
      [] action_str = "Pet Weight Recorded: 10.0 lbs" -> Some(<<"1", "0", ".", "0">>)
      [] action_str = "Pet Weight Recorded: 10.1 lbs" -> Some(<<"1", "0", ".", "1">>)
      [] action_str = "Pet Weight Recorded: 10.3 lbs" -> Some(<<"1", "0", ".", "3">>)
      [] action_str = "Pet Weight Recorded: ... lbs" -> Some(<<".", ".", ".">>)
      [] action_str = "Pet Weight Recorded: 1.2.3 lbs" -> Some(<<"1", ".", "2", ".", "3">>)
      [] OTHER -> None

DigitValue(c) ==
    CASE c = "0" -> 0 [] c = "1" -> 1 [] c = "2" -> 2 [] c = "3" -> 3
      [] c = "4" -> 4 [] c = "5" -> 5 [] c = "6" -> 6 [] c = "7" -> 7
      [] c = "8" -> 8 [] c = "9" -> 9

RECURSIVE DigitsValue(_)
DigitsValue(ds) ==
    IF ds = <<>> THEN 0
    ELSE 10 * DigitsValue(SubSeq(ds, 1, Len(ds) - 1)) + DigitValue(ds[Len(ds)])

\* float(token) for a token of digits and dots: the value in tenths, or None
\* when float raises ValueError (more than one dot, or no digit at all).
\* Tokens carry at most one digit after the dot.
Float(token) ==
    LET dots == {k \in 1..Len(token) : token[k] = "."}
    IN  IF Cardinality(dots) > 1 \/ Cardinality(dots) = Len(token) THEN None
        ELSE IF dots = {} THEN Some(10 * DigitsValue(token))
        ELSE LET d == CHOOSE k \in dots : TRUE
                 whole == SubSeq(token, 1, d - 1)
                 frac == SubSeq(token, d + 1, Len(token))
             IN  Some(10 * DigitsValue(whole) + DigitsValue(frac))

\* The if/elif chain of the loop body: which branch an action label takes.
Classify(action_str) ==
    IF Contains(action_str, "CAT_DETECTED") \/ action_str = "CD"
        THEN "CatDetected"
    ELSE IF Contains(action_str, "Pet Weight Recorded")
        THEN "WeightRecorded"
    ELSE IF Contains(action_str, "CLEAN_CYCLE:") \/ action_str = "CCP"
        THEN "CycleStarted"
    ELSE IF Contains(action_str, "CLEAN_CYCLE_COMPLETE") \/ action_str = "CCC"
        THEN "CycleCompleted"
    ELSE IF Contains(action_str, "CAT_SENSOR_INTERRUPTED") \/ action_str = "CSI"
        THEN "SensorInterrupted"
    ELSE "Unrecognized"

\* CatVisit(timestamp=timestamp)
CatVisit(timestamp) ==
    [timestamp |-> timestamp, weight_lbs |-> None,
     clean_cycle_duration_seconds |-> None]

(***************************************************************************)
(* Event logs: newest first, as the activity source supplies them.         *)
(***************************************************************************)
\* The timestamp sequences of length n over instants, newest first; ties says
\* whether two events may carry the same timestamp.
RECURSIVE NewestFirst(_, _, _)
NewestFirst(n, instants, ties) ==
    IF n = 0 THEN {<<>>}
    ELSE {u \in UNION {{<<t>> \o s : t \in instants} :
                          s \in NewestFirst(n - 1, instants, ties)} :
            \/ Len(u) = 1
            \/ u[1] > u[2]
            \/ (ties /\ u[1] = u[2])}

\* The log with timestamps ts and action labels ls, position by position.
Log(ts, ls) == [k \in 1..Len(ts) |-> [timestamp |-> ts[k], action |-> ls[k]]]

(***************************************************************************)
(* parse_activity_history, lines 46-76: the loop over reversed(activities).*)
(***************************************************************************)
\* The activity of the current iteration.
Activity == Reversed(activities)[processed + 1]

InLoop == pc = "loop" /\ processed < Len(activities)

\* Line 52: a detection opens a new visit, whatever was open before.
KeepOpenVisit(open, timestamp) ==
    IF open # None THEN open ELSE Some(CatVisit(timestamp))
OpenVisit(open, timestamp) == Some(CatVisit(timestamp))

\* Lines 59-60: the weight goes to the open visit, if there is one.
DropWeight(open, weight) == open
KeepFirstWeight(open, weight) ==
    IF open # None /\ open[1].weight_lbs = None
    THEN Some([open[1] EXCEPT !.weight_lbs = Some(weight)])
    ELSE open
WithWeight(open, weight) ==
    IF open # None THEN Some([open[1] EXCEPT !.weight_lbs = Some(weight)])
    ELSE open

\* Lines 67-69: the duration goes to the open visit, if a cycle start was seen.
DurationFromVisit(open, start, timestamp) ==
    IF start # None /\ open # None
    THEN Some([open[1] EXCEPT !.clean_cycle_duration_seconds =
                                  Some(timestamp - open[1].timestamp)])
    ELSE open
DurationSinceDetection(open, start, timestamp) ==
    IF start # None /\ open # None /\ start[1] >= open[1].timestamp
    THEN Some([open[1] EXCEPT !.clean_cycle_duration_seconds =
                                  Some(timestamp - start[1])])
    ELSE open
WithDuration(open, start, timestamp) ==
    IF start # None /\ open # None
    THEN Some([open[1] EXCEPT !.clean_cycle_duration_seconds =
                                  Some(timestamp - start[1])])
    ELSE open

\* Lines 70-71: the open visit, if any, is appended to the visit list.
AppendAlways(list, open, timestamp) ==
    IF open # None THEN Append(list, open[1])
    ELSE Append(list, CatVisit(timestamp))
PrependVisit(list, open, timestamp) ==
    IF open # None THEN <<open[1]>> \o list ELSE list
AppendVisit(list, open, timestamp) ==
    IF open # None THEN Append(list, open[1]) ELSE list

\* Line 72: after the append no visit is open.
LeftOpen(open) == open
ClosedVisit(open) == None

\* Line 73: the recorded cycle start is forgotten, used or not.
KeepCycleStart(start) == start
ClearedCycleStart(start) == None

CatDetected ==
    /\ InLoop
    /\ Classify(Activity.action) = "CatDetected"
    /\ current_visit' = OpenVisit(current_visit, Activity.timestamp)
    /\ processed' = processed + 1
    /\ UNCHANGED <<activities, pc, visits, weights, clean_cycles_completed,
                   sensor_interruptions, cycle_start_time, stats, doc>>

\* A label without a number is skipped; a token float() rejects raises
\* ValueError out of parse_activity_history.
WeightRecorded ==
    /\ InLoop
    /\ Classify(Activity.action) = "WeightRecorded"
    /\ LET match == ReSearchLbs(Activity.action)
           weight == IF match = None THEN None ELSE Float(match[1])
       IN  IF match = None
           THEN /\ processed' = processed + 1
                /\ UNCHANGED <<pc, weights, current_visit>>
           ELSE IF weight = None
           THEN /\ pc' = "raised"
                /\ UNCHANGED <<processed, weights, current_visit>>
           ELSE /\ weights' = Append(weights, weight[1])
                /\ current_visit' = WithWeight(current_visit, weight[1])
                /\ processed' = processed + 1
                /\ UNCHANGED pc
    /\ UNCHANGED <<activities, visits, clean_cycles_completed,
                   sensor_interruptions, cycle_start_time, stats, doc>>

CycleStarted ==
    /\ InLoop
    /\ Classify(Activity.action) = "CycleStarted"
    /\ cycle_start_time' = Some(Activity.timestamp)
    /\ processed' = processed + 1
    /\ UNCHANGED <<activities, pc, visits, weights, clean_cycles_completed,
                   sensor_interruptions, current_visit, stats, doc>>

CycleCompleted ==
    /\ InLoop
    /\ Classify(Activity.action) = "CycleCompleted"
    /\ clean_cycles_completed' = clean_cycles_completed + 1
    /\ visits' = AppendVisit(visits,
                     WithDuration(current_visit, cycle_start_time, Activity.timestamp),
                     Activity.timestamp)
    /\ current_visit' = ClosedVisit(current_visit)
    /\ cycle_start_time' = ClearedCycleStart(cycle_start_time)
    /\ processed' = processed + 1
    /\ UNCHANGED <<activities, pc, weights, sensor_interruptions, stats, doc>>

SensorInterruptedClosesVisit ==
    /\ InLoop
    /\ Classify(Activity.action) = "SensorInterrupted"
    /\ sensor_interruptions' = sensor_interruptions + 1
    /\ current_visit' = None
    /\ processed' = processed + 1
    /\ UNCHANGED <<activities, pc, visits, weights, clean_cycles_completed,
                   cycle_start_time, stats, doc>>
SensorInterrupted ==
    /\ InLoop
    /\ Classify(Activity.action) = "SensorInterrupted"
    /\ sensor_interruptions' = sensor_interruptions + 1
    /\ processed' = processed + 1
    /\ UNCHANGED <<activities, pc, visits, weights, clean_cycles_completed,
                   current_visit, cycle_start_time, stats, doc>>

Unrecognized ==
    /\ InLoop
    /\ Classify(Activity.action) = "Unrecognized"
    /\ processed' = processed + 1
    /\ UNCHANGED <<activities, pc, loopVars, stats, doc>>

(***************************************************************************)
(* Local time: astimezone(LOCAL_TZ) for America/Los_Angeles.  The instants *)
(* of the model lie in January 1970, where the zone is at UTC-8.           *)
(***************************************************************************)
LocalSeconds(timestamp) == timestamp - 8 * 3600

\* local_time.hour
LocalHourShifted(timestamp) == (timestamp \div 3600) % 24
LocalHour(timestamp) == (LocalSeconds(timestamp) \div 3600) % 24

\* The local calendar date, as days since 1970-01-01.
LocalDate(timestamp) == LocalSeconds(timestamp) \div 86400

\* local_time.weekday(): Monday is 0; 1970-01-01 was a Thursday.
Weekday(timestamp) == (LocalDate(timestamp) + 3) % 7

\* local_time.strftime(format): the formatted string, kept as the format and
\* the calendar date it renders.
Strftime(timestamp, format) == [format |-> format, date |-> LocalDate(timestamp)]

(***************************************************************************)
(* parse_activity_history, lines 78-129: the statistics.                   *)
(***************************************************************************)
\* Lines 79-85.
DateRange(acts) ==
    IF acts # <<>>
    THEN LET ts == [k \in 1..Len(acts) |-> acts[k].timestamp]
         IN  <<Some(Min(ts)), Some(Max(ts))>>
    ELSE <<None, None>>

\* days_covered, as the exact number of seconds (the code divides by 86400).
SecondsCovered(acts) ==
    IF acts # <<>> THEN DateRange(acts)[2][1] - DateRange(acts)[1][1] ELSE 0

\* d[key] += 1, creating the entry fresh (with count 0) on first use.
Increment(d, key, fresh) ==
    IF \E k \in 1..Len(d) : d[k].key = key
    THEN [k \in 1..Len(d) |->
            IF d[k].key = key THEN [d[k] EXCEPT !.count = @ + 1] ELSE d[k]]
    ELSE Append(d, [fresh EXCEPT !.count = 1])

\* Lines 88-91.
RECURSIVE VisitsByHour(_)
VisitsByHourFirstOnly(vs) ==
    IF vs = <<>> THEN <<>>
    ELSE <<[key |-> LocalHour(vs[1].timestamp), count |-> 1]>>
VisitsByHour(vs) ==
    IF vs = <<>> THEN <<>>
    ELSE LET last == vs[Len(vs)]
         IN  Increment(VisitsByHour(SubSeq(vs, 1, Len(vs) - 1)),
                       LocalHour(last.timestamp),
                       [key |-> LocalHour(last.timestamp), count |-> 0])

\* Lines 94-105.
RECURSIVE VisitsByDate(_)
VisitsByDate(vs) ==
    IF vs = <<>> THEN <<>>
    ELSE LET last == vs[Len(vs)]
         IN  Increment(VisitsByDate(SubSeq(vs, 1, Len(vs) - 1)),
                       LocalDate(last.timestamp),
                       [key |-> LocalDate(last.timestamp),
                        count |-> 0,
                        weekday |-> Weekday(last.timestamp),
                        weekday_name |-> Strftime(last.timestamp, "%a"),
                        display |-> Strftime(last.timestamp, "%m/%d")])

\* Lines 108-111.
VisitGapsFromFirst(vs) ==
    [k \in 1..(Len(vs) - 1) |-> vs[k + 1].timestamp - vs[1].timestamp]
VisitGaps(vs) ==
    [k \in 1..(Len(vs) - 1) |-> vs[k + 1].timestamp - vs[k].timestamp]

\* Lines 113-114.
LongestGap(gaps) == IF gaps # <<>> THEN Some(Max(gaps)) ELSE None
ShortestGap(gaps) == IF gaps # <<>> THEN Some(Min(gaps)) ELSE None

\* Line 120.
MidRoundedUp(n) == (n + 1) \div 2
Mid(n) == n \div 2

\* Lines 121-123: second_half_avg - first_half_avg, in tenths of a pound, as
\* the exact fraction num / den (den > 0).
WeightChange(ws) ==
    LET mid == Mid(Len(ws))
        first_half == SubSeq(ws, 1, mid)
        second_half == SubSeq(ws, mid + 1, Len(ws))
    IN  [num |-> Sum(second_half) * mid - Sum(first_half) * (Len(ws) - mid),
         den |-> mid * (Len(ws) - mid)]

\* Lines 124-129: the thresholds 0.1 and -0.1 pounds are 1 and -1 tenth.
TrendOfNotStrict(change) ==
    IF change.num >= change.den THEN "gaining"
    ELSE IF change.num <= -change.den THEN "losing"
    ELSE "stable"
TrendOf(change) ==
    IF change.num > change.den THEN "gaining"
    ELSE IF change.num < -change.den THEN "losing"
    ELSE "stable"

\* Line 119.
MinTrendSamples == 4

\* Lines 117-129.
WeightTrend(ws) ==
    IF Len(ws) >= MinTrendSamples THEN Some(TrendOf(WeightChange(ws))) ELSE None

WeightChangeOrNone(ws) ==
    IF Len(ws) >= MinTrendSamples THEN Some(WeightChange(ws)) ELSE None

(***************************************************************************)
(* parse_activity_history, lines 131-169: the personality traits.          *)
(***************************************************************************)
\* sum(visits_by_hour.get(h, 0) for h in range(lo, hi))
PeriodVisits(by_hour, lo, hi) ==
    Sum([k \in 1..Len(by_hour) |->
            IF by_hour[k].key \in lo..(hi - 1) THEN by_hour[k].count ELSE 0])

\* Lines 134-148.
TimeOfDayTrait(by_hour) ==
    IF by_hour # <<>>
    THEN LET periods ==
                 <<[count |-> PeriodVisits(by_hour, 0, 6), label |-> "Night Owl"],
                   [count |-> PeriodVisits(by_hour, 6, 12), label |-> "Early Bird"],
                   [count |-> PeriodVisits(by_hour, 12, 18),
                    label |-> "Afternoon Aristocat"],
                   [count |-> PeriodVisits(by_hour, 18, 24),
                    label |-> "Evening Eliminator"]>>
             dominant_period ==
                 periods[FirstMaxIndex([k \in 1..4 |-> periods[k].count])]
         IN  IF dominant_period.count > 0 THEN <<dominant_period.label>> ELSE <<>>
    ELSE <<>>

\* Lines 151-152: n^3 * gap_variance / 3600^2 for the n gaps, as whole + a rest
\* of less than one (rest counts 1 / 3600^2).  With d[k] = n * gap[k] - sum,
\* n^3 * gap_variance is the sum of the d[k]^2; the squares are taken on the
\* base-3600 digits of d[k] to stay within 32-bit integers.
ScaledVariance(gaps) ==
    LET n == Len(gaps)
        d == [k \in 1..n |-> n * gaps[k] - Sum(gaps)]
        q == [k \in 1..n |-> d[k] \div 3600]
        r == [k \in 1..n |-> d[k] % 3600]
        s2 == Sum([k \in 1..n |-> q[k] * q[k]])
        s1 == Sum([k \in 1..n |-> 2 * q[k] * r[k]])
        s0 == Sum([k \in 1..n |-> r[k] * r[k]])
        t1 == s1 + (s0 \div 3600)
    IN  [whole |-> s2 + (t1 \div 3600),
         rest |-> 3600 * (t1 % 3600) + (s0 % 3600)]

\* Lines 150-157: std_dev_hours < 2 and std_dev_hours > 6, squared.
RegularityTrait(gaps) ==
    IF gaps # <<>>
    THEN LET n == Len(gaps)
             v == ScaledVariance(gaps)
         IN  IF v.whole < 4 * n * n * n THEN <<"Creature of Habit">>
             ELSE IF \/ v.whole > 36 * n * n * n
                     \/ (v.whole = 36 * n * n * n /\ v.rest > 0)
                  THEN <<"Chaotic Pooper">>
             ELSE <<>>
    ELSE <<>>

\* Lines 159-169: the rates are compared cross-multiplied (1.3 is 13 / 10).
WeeklyTrait(by_date) ==
    IF by_date # <<>>
    THEN LET weekend == {k \in 1..Len(by_date) : by_date[k].weekday >= 5}
             weekday == {k \in 1..Len(by_date) : by_date[k].weekday < 5}
             count(ks) == Sum([k \in 1..Len(by_date) |->
                                  IF k \in ks THEN by_date[k].count ELSE 0])
             weekend_visits == count(weekend)
             weekday_visits == count(weekday)
             weekend_days == IF weekend = {} THEN 1 ELSE Cardinality(weekend)
             weekday_days == IF weekday = {} THEN 1 ELSE Cardinality(weekday)
         IN  IF 10 * weekend_visits * weekday_days > 13 * weekday_visits * weekend_days
                 THEN <<"Weekend Warrior">>
             ELSE IF 10 * weekday_visits * weekend_days > 13 * weekend_visits * weekday_days
                 THEN <<"Weekday Regular">>
             ELSE <<>>
    ELSE <<>>

\* The keys of the dict returned at lines 171-185.
StatsKeys ==
    {"visits", "weights", "clean_cycles_completed", "sensor_interruptions",
     "date_range", "days_covered", "visits_by_hour", "visits_by_date",
     "longest_gap", "shortest_gap", "weight_trend", "weight_change",
     "personality_traits"}

\* Lines 78-185: the loop is over; compute the statistics and return them.
\* days_covered is kept as the exact fraction num / den of a day.
ComputeStats ==
    /\ pc = "loop"
    /\ processed = Len(activities)
    /\ LET by_hour == VisitsByHour(visits)
           by_date == VisitsByDate(visits)
           visit_gaps == VisitGaps(visits)
       IN  stats' = Some(
               [visits |-> visits,
                weights |-> weights,
                clean_cycles_completed |-> clean_cycles_completed,
                sensor_interruptions |-> sensor_interruptions,
                date_range |-> DateRange(activities),
                days_covered |-> [num |-> SecondsCovered(activities), den |-> 86400],
                visits_by_hour |-> by_hour,
                visits_by_date |-> by_date,
                longest_gap |-> LongestGap(visit_gaps),
                shortest_gap |-> ShortestGap(visit_gaps),
                weight_trend |-> WeightTrend(weights),
                weight_change |-> WeightChangeOrNone(weights),
                personality_traits |-> TimeOfDayTrait(by_hour)
                                       \o RegularityTrait(visit_gaps)
                                       \o WeeklyTrait(by_date)])
    /\ pc' = "parsed"
    /\ UNCHANGED <<activities, processed, loopVars, doc>>

(***************************************************************************)
(* format_duration, lines 188-195.                                         *)
(***************************************************************************)
format_duration(td) ==
    LET total_seconds == td
        hours == total_seconds \div 3600
        remainder == total_seconds % 3600
        minutes == remainder \div 60
    IN  IF hours > 0
        THEN ToString(hours) \o "h " \o ToString(minutes) \o "m"
        ELSE ToString(minutes) \o "m"

(***************************************************************************)
(* build_data_json, lines 198-278.                                         *)
(***************************************************************************)
\* The truth value of a timedelta | None: None and timedelta(0) are false.
Truthy(gap) == gap # None /\ gap[1] # 0

\* Lines 254-255.
GapDisplay(gap) == IF Truthy(gap) THEN format_duration(gap[1]) ELSE "N/A"

\* stats.get(key, default): the default is used only for a missing key.
StatsGet(key, value, default) ==
    IF key \in StatsKeys THEN value ELSE Some(default)

\* Line 267: the 12-hour clock string of an hour.
HourDisplayNoTwelve(hour) ==
    ToString(hour % 12) \o ":00 " \o (IF hour < 12 THEN "AM" ELSE "PM")
HourDisplay(hour) ==
    ToString(IF hour % 12 = 0 THEN 12 ELSE hour % 12)
    \o ":00 " \o (IF hour < 12 THEN "AM" ELSE "PM")

\* Lines 213-215 and 264-268.  max(by_hour, key=by_hour.get) is the first key,
\* in insertion order, with the greatest count.
PeakHour(by_hour) ==
    LET peak_hour ==
            IF by_hour # <<>>
            THEN by_hour[FirstMaxIndex([k \in 1..Len(by_hour) |-> by_hour[k].count])].key
            ELSE 0
        found == {k \in 1..Len(by_hour) : by_hour[k].key = peak_hour}
        peak_count == IF found = {} THEN 0
                      ELSE by_hour[CHOOSE k \in found : TRUE].count
    IN  [hour |-> peak_hour,
         count |-> peak_count,
         display |-> HourDisplay(peak_hour)]

\* Lines 218-226: the entries in ascending order of their date key.
ChartData(by_date) ==
    [r \in 1..Len(by_date) |->
        LET k == CHOOSE k \in 1..Len(by_date) :
                    Cardinality({j \in 1..Len(by_date) :
                                    by_date[j].key < by_date[k].key}) = r - 1
        IN  [weekday |-> by_date[k].weekday_name,
             display |-> by_date[k].display,
             count |-> by_date[k].count]]

day_names ==
    <<"Monday", "Tuesday", "Wednesday", "Thursday", "Friday", "Saturday", "Sunday">>

\* Lines 228-238.
BusiestDate(by_date) ==
    IF by_date # <<>>
    THEN LET busiest_info ==
                 by_date[FirstMaxIndex([k \in 1..Len(by_date) |-> by_date[k].count])]
         IN  Some([day_name |-> day_names[busiest_info.weekday + 1],
                   display |-> busiest_info.display,
                   count |-> busiest_info.count,
                   is_weekend |-> busiest_info.weekday >= 5])
    ELSE None

\* Lines 244-248.
DateRangeDisplay(start, end) ==
    [start |-> IF start # None THEN Some(Strftime(start[1], "%b %d")) ELSE None,
     end |-> IF end # None THEN Some(Strftime(end[1], "%b %d, %Y")) ELSE None,
     display |-> IF start # None
                 THEN Some(<<Strftime(start[1], "%b %d"), " - ",
                             Strftime(end[1], "%b %d, %Y")>>)
                 ELSE Some(<<>>)]

\* Lines 257-263.  Weights are in tenths of a pound, the change in hundredths.
WeightBlock(s) ==
    LET ws == s.weights
    IN  [average |-> IF ws # <<>> THEN RoundHalfEven(Sum(ws), Len(ws)) ELSE 0,
         min |-> IF ws # <<>> THEN Min(ws) ELSE 0,
         max |-> IF ws # <<>> THEN Max(ws) ELSE 0,
         trend |-> StatsGet("weight_trend", s.weight_trend, "stable"),
         change |-> LET c == StatsGet("weight_change", s.weight_change,
                                      [num |-> 0, den |-> 1])
                    IN  IF c = None \/ c[1].num = 0 THEN 0
                        ELSE RoundHalfEven(10 * c[1].num, c[1].den)]

\* Lines 205-206 and 251: days_covered or 1; the result is in tenths.
VisitsPerDay(total_visits, days_covered) ==
    IF days_covered.num = 0 THEN 10 * total_visits
    ELSE RoundHalfEven(10 * total_visits * days_covered.den, days_covered.num)

RobotNames == {"Litter-Robot 4"}
CatNames == {"Kitty"}
\* The values datetime.now(LOCAL_TZ) may take.
Clock == {500000, 500001}

BuildDataJson ==
    /\ pc = "parsed"
    /\ \E robot_name \in RobotNames, cat_name \in CatNames, now \in Clock :
        LET s == stats[1]
            total_visits == Len(s.visits)
        IN  doc' = Some(
                [cat_name |-> cat_name,
                 robot_name |-> robot_name,
                 generated_at |-> now,
                 date_range |-> DateRangeDisplay(s.date_range[1], s.date_range[2]),
                 personality_traits |-> s.personality_traits,
                 total_visits |-> total_visits,
                 visits_per_day |-> VisitsPerDay(total_visits, s.days_covered),
                 chart_data |-> ChartData(s.visits_by_date),
                 timing |-> [longest_gap |-> GapDisplay(s.longest_gap),
                             shortest_gap |-> GapDisplay(s.shortest_gap)],
                 weight |-> WeightBlock(s),
                 peak_hour |-> PeakHour(s.visits_by_hour),
                 busiest_date |-> BusiestDate(s.visits_by_date),
                 robot_stats |-> [clean_cycles |-> s.clean_cycles_completed,
                                  interruptions |-> s.sensor_interruptions],
                 output |-> [oz |-> RoundHalfEven(5 * total_visits, 2),
                             lbs |-> RoundHalfEven(25 * total_visits, 16)]])
    /\ pc' = "built"
    /\ UNCHANGED <<activities, processed, loopVars, stats>>

(***************************************************************************)
(* Specifications.  Each starts parse_activity_history on an event log     *)
(* drawn from a bounded set: lines 38-44 are the initial state.            *)
(***************************************************************************)
InitOn(labels, instants, ties, maxLen) ==
    /\ \E n \in 0..maxLen :
         \E ts \in NewestFirst(n, instants, ties), ls \in [1..n -> labels] :
            activities = Log(ts, ls)
    /\ pc = "loop"
    /\ processed = 0
    /\ visits = <<>>
    /\ weights = <<>>
    /\ clean_cycles_completed = 0
    /\ sensor_interruptions = 0
    /\ current_visit = None
    /\ cycle_start_time = None
    /\ stats = None
    /\ doc = None

\* Spec: every kind of event, at distinct instants seconds apart.
EventLabels ==
    {"LitterBoxStatus.CAT_DETECTED", "Pet Weight Recorded: 8.5 lbs", "CCP",
     "LitterBoxStatus.CLEAN_CYCLE_COMPLETE", "CSI", "LitterBoxStatus.READY"}
EventInstants == {100000, 100001, 100002, 100010, 100020}

Init == InitOn(EventLabels, EventInstants, FALSE, MaxEvents)

Next ==
    \/ CatDetected
    \/ WeightRecorded
    \/ CycleStarted
    \/ CycleCompleted
    \/ SensorInterrupted
    \/ Unrecognized
    \/ ComputeStats
    \/ BuildDataJson

Spec == Init /\ [][Next]_vars

\* SpecWeights: weight labels, well-formed and malformed, and detections, all
\* at one instant.
WeightLabels ==
    {"LitterBoxStatus.CAT_DETECTED", "Pet Weight Recorded: 10.0 lbs",
     "Pet Weight Recorded: 10.1 lbs", "Pet Weight Recorded: 10.3 lbs",
     "Pet Weight Recorded: ... lbs", "Pet Weight Recorded: 1.2.3 lbs",
     "Pet Weight Recorded"}
WeightInstants == {100000}

InitWeights == InitOn(WeightLabels, WeightInstants, TRUE, MaxWeightEvents)

NextWeights ==
    \/ CatDetected
    \/ WeightRecorded
    \/ ComputeStats
    \/ BuildDataJson

SpecWeights == InitWeights /\ [][NextWeights]_vars

\* SpecVisits: detections and completed cycles (short codes), possibly at the
\* same instant, spread over hours and days: Thursday 02:00:00, 02:00:30 and
\* 09:00, Saturday 13:00 and Sunday 20:00, local time.
VisitLabels == {"CD", "CCC"}
VisitInstants == {36000, 36030, 61200, 248400, 360000}

InitVisits == InitOn(VisitLabels, VisitInstants, TRUE, MaxVisitEvents)

NextVisits ==
    \/ CatDetected
    \/ CycleCompleted
    \/ ComputeStats
    \/ BuildDataJson

SpecVisits == InitVisits /\ [][NextVisits]_vars

(***************************************************************************)
(* The events in processing order, for the properties below.               *)
(***************************************************************************)
Chron == Reversed(activities)
Kind(k) == Classify(Chron[k].action)
Returned == pc \in {"parsed", "built"}

\* No detection and no completed cycle lies strictly between positions i and j.
Undisturbed(i, j) ==
    \A k \in (i + 1)..(j - 1) : Kind(k) \notin {"CatDetected", "CycleCompleted"}

\* The processed detections whose visit was finalized, replaced by a later
\* detection, or is still open.
Completed ==
    {i \in 1..processed : /\ Kind(i) = "CatDetected"
                          /\ \E j \in (i + 1)..processed :
                                Kind(j) = "CycleCompleted" /\ Undisturbed(i, j)}
Discarded ==
    {i \in 1..processed : /\ Kind(i) = "CatDetected"
                          /\ \E j \in (i + 1)..processed :
                                Kind(j) = "CatDetected" /\ Undisturbed(i, j)}
StillOpen ==
    {i \in 1..processed : /\ Kind(i) = "CatDetected"
                          /\ Undisturbed(i, processed + 1)}

\* The elements of a set of positions, in ascending order.
Ascending(S) ==
    [r \in 1..Cardinality(S) |->
        CHOOSE i \in S : Cardinality({j \in S : j < i}) = r - 1]

(***************************************************************************)
(* C1: a visit is appended only by a CycleCompleted event processed while  *)
(* a visit is open, and the appended visit is the open one; every visit in *)
(* the list carries the timestamp of a CatDetected that is followed, in    *)
(* processing order, by a CycleCompleted with no CatDetected in between.   *)
(***************************************************************************)
C1_VisitHasDetection ==
    \A v \in 1..Len(visits) :
        \E i \in 1..processed, j \in 1..processed :
            /\ i < j
            /\ Kind(i) = "CatDetected"
            /\ Chron[i].timestamp = visits[v].timestamp
            /\ Kind(j) = "CycleCompleted"
            /\ \A k \in (i + 1)..(j - 1) : Kind(k) # "CatDetected"

C1_AppendStep ==
    visits' # visits =>
        /\ InLoop
        /\ Kind(processed + 1) = "CycleCompleted"
        /\ current_visit # None
        /\ Len(visits') = Len(visits) + 1
        /\ SubSeq(visits', 1, Len(visits)) = visits
        /\ visits'[Len(visits')].timestamp = current_visit[1].timestamp
        /\ \E i \in 1..processed :
              /\ Kind(i) = "CatDetected"
              /\ Chron[i].timestamp = current_visit[1].timestamp
              /\ \A k \in (i + 1)..processed : Kind(k) # "CatDetected"

C1_OnlyCycleCompletedAppends == [](C1_VisitHasDetection) /\ [][C1_AppendStep]_vars

\* A visit was appended after two detections at different instants: it is
\* the visit of the later one.
C1_Witness ==
    /\ Len(visits) = 1
    /\ \E i \in 1..processed, j \in 1..processed, k \in 1..processed :
          /\ i < j /\ j < k
          /\ Kind(i) = "CatDetected" /\ Kind(j) = "CatDetected"
          /\ Kind(k) = "CycleCompleted"
          /\ Chron[i].timestamp # Chron[j].timestamp
          /\ visits[1].timestamp = Chron[j].timestamp

(***************************************************************************)
(* C2: an open visit that is not completed is dropped.  The visit list     *)
(* holds exactly the visits of the detections that a CycleCompleted        *)
(* followed before any other detection, in order; a detection followed by  *)
(* another detection first is in no visit; a visit is open exactly while   *)
(* the last detection has been followed by neither; the returned list is   *)
(* the visit list, without the visit still open at the end.  A log of one  *)
(* single detection returns no visit and clean_cycles_completed = 0.       *)
(***************************************************************************)
C2_DroppedOpenVisit ==
    /\ Len(visits) = Cardinality(Completed)
    /\ \A r \in 1..Len(visits) :
          visits[r].timestamp = Chron[Ascending(Completed)[r]].timestamp
    /\ (current_visit # None) <=> (StillOpen # {})
    /\ current_visit # None =>
          current_visit[1].timestamp =
              Chron[CHOOSE i \in StillOpen : TRUE].timestamp
    /\ Returned => stats[1].visits = visits
    /\ (Returned /\ Len(activities) = 1 /\ Kind(1) = "CatDetected") =>
          /\ stats[1].visits = <<>>
          /\ stats[1].clean_cycles_completed = 0

\* The log is over: one detection was replaced by a later one at another
\* instant, one visit was completed and one is still open.
C2_Witness ==
    /\ Returned
    /\ Len(visits) = 1
    /\ StillOpen # {}
    /\ \E i \in Discarded : Chron[i].timestamp # visits[1].timestamp

(***************************************************************************)
(* C3: the minimal complete visit.  The log CatDetected at T0,             *)
(* WeightRecorded 8.5 at T0+1, CycleStarted at T0+2, CycleCompleted at     *)
(* T0+10, supplied newest first, returns exactly one visit, with timestamp *)
(* T0, weight 8.5 and a clean cycle of 8 seconds, and one completed cycle. *)
(***************************************************************************)
ScenarioA ==
    <<[timestamp |-> 100010, action |-> "LitterBoxStatus.CLEAN_CYCLE_COMPLETE"],
      [timestamp |-> 100002, action |-> "CCP"],
      [timestamp |-> 100001, action |-> "Pet Weight Recorded: 8.5 lbs"],
      [timestamp |-> 100000, action |-> "LitterBoxStatus.CAT_DETECTED"]>>

C3_MinimalCompleteVisit ==
    (Returned /\ activities = ScenarioA) =>
        /\ stats[1].visits =
              <<[timestamp |-> 100000, weight_lbs |-> Some(85),
                 clean_cycle_duration_seconds |-> Some(8)]>>
        /\ stats[1].clean_cycles_completed = 1
        /\ stats[1].weights = <<85>>

C3_Witness == pc = "built" /\ activities = ScenarioA /\ doc[1].total_visits = 1

(***************************************************************************)
(* C4: a log supplied newest first is processed oldest first: the event of *)
(* each iteration is no older than the open visit, the recorded cycle      *)
(* start and every visit appended so far; the visit list is in             *)
(* non-decreasing timestamp order after every event, and every gap         *)
(* computed from it is non-negative.                                       *)
(***************************************************************************)
IsNewestFirst(acts) ==
    \A k \in 1..(Len(acts) - 1) : acts[k].timestamp >= acts[k + 1].timestamp

\* The timestamp of the event the next iteration takes, by the code's order.
NextTimestamp == Activity.timestamp

C4_ChronologicalVisits ==
    IsNewestFirst(activities) =>
        /\ \A k \in 2..Len(visits) : visits[k - 1].timestamp <= visits[k].timestamp
        /\ InLoop =>
              /\ \A k \in 1..Len(visits) : visits[k].timestamp <= NextTimestamp
              /\ current_visit # None => current_visit[1].timestamp <= NextTimestamp
              /\ cycle_start_time # None => cycle_start_time[1] <= NextTimestamp
        /\ Returned =>
              /\ \A k \in 2..Len(stats[1].visits) :
                    stats[1].visits[k].timestamp - stats[1].visits[k - 1].timestamp >= 0
              /\ stats[1].longest_gap # None => stats[1].longest_gap[1] >= 0
              /\ stats[1].shortest_gap # None => stats[1].shortest_gap[1] >= 0

\* Three visits at three different instants were returned.
C4_Witness ==
    /\ Returned
    /\ Len(stats[1].visits) = 3
    /\ stats[1].visits[1].timestamp < stats[1].visits[2].timestamp
    /\ stats[1].visits[2].timestamp < stats[1].visits[3].timestamp
    /\ stats[1].shortest_gap[1] > 0

(***************************************************************************)
(* C5: the counts of visits_by_date sum to the number of visits, and so do *)
(* the counts of visits_by_hour; every hourly key is an hour 0..23, no key *)
(* occurs twice, and each bucket counts exactly the visits of its hour or  *)
(* of its date.  total_visits of the document is that number.              *)
(***************************************************************************)
CountsOf(d) == [k \in 1..Len(d) |-> d[k].count]

C5_BucketsPartitionVisits ==
    Returned =>
        LET vs == stats[1].visits
            by_hour == stats[1].visits_by_hour
            by_date == stats[1].visits_by_date
            hourOf(v) == ((vs[v].timestamp - 28800) \div 3600) % 24
            dateOf(v) == (vs[v].timestamp - 28800) \div 86400
        IN  /\ Sum(CountsOf(by_date)) = Len(vs)
            /\ Sum(CountsOf(by_hour)) = Len(vs)
            /\ \A k \in 1..Len(by_hour) :
                  /\ by_hour[k].key \in 0..23
                  /\ \A j \in 1..Len(by_hour) : by_hour[j].key = by_hour[k].key => j = k
                  /\ by_hour[k].count =
                        Cardinality({v \in 1..Len(vs) : hourOf(v) = by_hour[k].key})
            /\ \A k \in 1..Len(by_date) :
                  /\ \A j \in 1..Len(by_date) : by_date[j].key = by_date[k].key => j = k
                  /\ by_date[k].count =
                        Cardinality({v \in 1..Len(vs) : dateOf(v) = by_date[k].key})
            /\ \A v \in 1..Len(vs) :
                  /\ \E k \in 1..Len(by_hour) : by_hour[k].key = hourOf(v)
                  /\ \E k \in 1..Len(by_date) : by_date[k].key = dateOf(v)
            /\ pc = "built" => doc[1].total_visits = Len(vs)

\* Three visits on two dates, two of them in the same hour of the same day.
C5_Witness ==
    /\ pc = "built"
    /\ doc[1].total_visits = 3
    /\ Len(stats[1].visits_by_date) = 2
    /\ Len(stats[1].visits_by_hour) = 2
    /\ \E k \in 1..2 : stats[1].visits_by_hour[k].count = 2

(***************************************************************************)
(* C6: with fewer than 4 weight samples the weight block of the document   *)
(* reports trend "stable" and change 0, and with no sample at all average, *)
(* min and max are 0.                                                      *)
(***************************************************************************)
C6_WeightDefaults ==
    (pc = "built" /\ Len(stats[1].weights) < 4) =>
        /\ doc[1].weight.trend = Some("stable")
        /\ doc[1].weight.change = 0
        /\ stats[1].weights = <<>> =>
              /\ doc[1].weight.average = 0
              /\ doc[1].weight.min = 0
              /\ doc[1].weight.max = 0

(***************************************************************************)
(* C7: a "Pet Weight Recorded" label from which no number parses (no token *)
(* before "lbs", or a token of digits and dots that is no decimal number)  *)
(* is skipped: the iteration ends without an error and leaves the weight   *)
(* list, the open visit, cycle_start_time, the visit list and the counters *)
(* unchanged.                                                              *)
(***************************************************************************)
NoNumberParses(action_str) ==
    \/ ReSearchLbs(action_str) = None
    \/ Float(ReSearchLbs(action_str)[1]) = None

C7_MalformedWeightStep ==
    (/\ InLoop
     /\ Kind(processed + 1) = "WeightRecorded"
     /\ NoNumberParses(Chron[processed + 1].action)) =>
        /\ pc' = "loop"
        /\ processed' = processed + 1
        /\ UNCHANGED loopVars

C7_MalformedWeightIgnored == [][C7_MalformedWeightStep]_vars

(***************************************************************************)
(* C8: with at least 2 visits, longest_gap and shortest_gap of the         *)
(* document are the formatted durations of the greatest and the least gap  *)
(* between consecutive visits, a gap of zero included; they are "N/A"      *)
(* only with fewer than 2 visits.                                          *)
(***************************************************************************)
C8_GapStrings ==
    pc = "built" =>
        LET vs == stats[1].visits
            gaps == [k \in 1..(Len(vs) - 1) |-> vs[k + 1].timestamp - vs[k].timestamp]
        IN  IF Len(vs) >= 2
            THEN /\ doc[1].timing.longest_gap = format_duration(Max(gaps))
                 /\ doc[1].timing.shortest_gap = format_duration(Min(gaps))
            ELSE /\ doc[1].timing.longest_gap = "N/A"
                 /\ doc[1].timing.shortest_gap = "N/A"

C10_EmptyInput ==
    activities = <<>> =>
        /\ pc # "raised"
        /\ Returned =>
              /\ stats[1].visits = <<>>
              /\ stats[1].date_range = <<None, None>>
              /\ stats[1].days_covered.num = 0
              /\ stats[1].personality_traits = <<>>
        /\ pc = "built" =>
              /\ doc[1].total_visits = 0
              /\ doc[1].date_range.start = None
              /\ doc[1].date_range.end = None
              /\ doc[1].chart_data = <<>>
              /\ doc[1].personality_traits = <<>>
              /\ doc[1].peak_hour = [hour |-> 0, count |-> 0, display |-> "12:00 AM"]
              /\ doc[1].busiest_date = None
              /\ doc[1].timing.longest_gap = "N/A"
              /\ doc[1].timing.shortest_gap = "N/A"

\* The document of the empty log was built.
C10_Witness == activities = <<>> /\ pc = "built" /\ doc # None

\* SpecWeighIn: visits with weigh-ins, two weights and a label without a number.
WeighInLabels ==
    {"CD", "Pet Weight Recorded: 10.0 lbs", "Pet Weight Recorded: 10.3 lbs",
     "Pet Weight Recorded", "CCC"}
WeighInInstants == {100000, 100001, 100002, 100003, 100004, 100005}

InitWeighIn == InitOn(WeighInLabels, WeighInInstants, FALSE, MaxWeighInEvents)

NextWeighIn ==
    \/ CatDetected
    \/ WeightRecorded
    \/ CycleCompleted
    \/ ComputeStats
    \/ BuildDataJson

SpecWeighIn == InitWeighIn /\ [][NextWeighIn]_vars

(***************************************************************************)
(* C11: the gap list has one entry for each pair of consecutive visits, in *)
(* visit order: entry k is the timestamp of visit k + 1 minus that of      *)
(* visit k.  With at least two visits longest_gap and shortest_gap are the *)
(* greatest and the least of these entries, so longest_gap >=              *)
(* shortest_gap; with exactly two visits both equal the timestamp of the   *)
(* second visit minus that of the first.                                   *)
(***************************************************************************)
C11_GapBounds ==
    Returned =>
        LET vs == stats[1].visits
            n == Len(vs)
            gap(k) == vs[k + 1].timestamp - vs[k].timestamp
            longest == stats[1].longest_gap
            shortest == stats[1].shortest_gap
        IN  /\ Len(VisitGaps(vs)) = (IF n = 0 THEN 0 ELSE n - 1)
            /\ \A k \in 1..(n - 1) : VisitGaps(vs)[k] = gap(k)
            /\ n >= 2 =>
                  /\ longest # None /\ shortest # None
                  /\ longest[1] >= shortest[1]
                  /\ \E k \in 1..(n - 1) : gap(k) = longest[1]
                  /\ \E k \in 1..(n - 1) : gap(k) = shortest[1]
                  /\ \A k \in 1..(n - 1) :
                        shortest[1] <= gap(k) /\ gap(k) <= longest[1]
            /\ n = 2 =>
                  /\ longest[1] = vs[2].timestamp - vs[1].timestamp
                  /\ shortest[1] = vs[2].timestamp - vs[1].timestamp

\* Three visits were returned, the two gaps differ and neither is zero.
C11_Witness ==
    /\ Returned
    /\ Len(stats[1].visits) = 3
    /\ stats[1].shortest_gap[1] > 0
    /\ stats[1].longest_gap[1] > stats[1].shortest_gap[1]

\* The position of the CycleCompleted that finalized the r-th visit.
FinalizedAt(r) ==
    LET i == Ascending(Completed)[r]
    IN  CHOOSE j \in (i + 1)..processed :
            Kind(j) = "CycleCompleted" /\ Undisturbed(i, j)

\* The CycleStarted events before position j that no CycleCompleted before j
\* has followed, and the latest of them.
CycleStartsBefore(j) ==
    {p \in 1..(j - 1) :
        /\ Kind(p) = "CycleStarted"
        /\ \A k \in (p + 1)..(j - 1) : Kind(k) # "CycleCompleted"}
StartUsed(j) ==
    CHOOSE p \in CycleStartsBefore(j) : \A q \in CycleStartsBefore(j) : q <= p

(***************************************************************************)
(* C13: every CycleCompleted event adds exactly one to                     *)
(* clean_cycles_completed and leaves no cycle start recorded, whether or   *)
(* not a visit is open and whether or not a cycle start was recorded.  So  *)
(* clean_cycles_completed is the number of CycleCompleted events           *)
(* processed, a cycle start is recorded exactly while a CycleStarted has   *)
(* been followed by no CycleCompleted, and a recorded cycle start gives    *)
(* the duration of at most one visit: a visit with a duration was          *)
(* finalized by the first CycleCompleted after a CycleStarted, and no two  *)
(* visits with a duration share that CycleStarted.                         *)
(***************************************************************************)
C13_CycleCount ==
    /\ clean_cycles_completed =
          Cardinality({i \in 1..processed : Kind(i) = "CycleCompleted"})
    /\ (cycle_start_time # None) <=> (CycleStartsBefore(processed + 1) # {})
    /\ \A r \in 1..Len(visits) :
          visits[r].clean_cycle_duration_seconds # None =>
              /\ CycleStartsBefore(FinalizedAt(r)) # {}
              /\ \A s \in 1..Len(visits) :
                    (s # r /\ visits[s].clean_cycle_duration_seconds # None) =>
                        /\ CycleStartsBefore(FinalizedAt(s)) # {}
                        /\ StartUsed(FinalizedAt(s)) # StartUsed(FinalizedAt(r))

C13_CompletedStep ==
    (InLoop /\ Kind(processed + 1) = "CycleCompleted") =>
        /\ clean_cycles_completed' = clean_cycles_completed + 1
        /\ cycle_start_time' = None

C13_CycleCompletedCounts == [](C13_CycleCount) /\ [][C13_CompletedStep]_vars

\* Two cycles were completed: the first finalized a visit and used the
\* recorded cycle start, the second found neither a visit nor a cycle start.
C13_Witness ==
    /\ clean_cycles_completed = 2
    /\ Len(visits) = 1
    /\ visits[1].clean_cycle_duration_seconds # None
    /\ visits[1].clean_cycle_duration_seconds[1] > 0
    /\ Kind(processed) = "CycleCompleted"
    /\ Kind(processed - 1) = "CycleCompleted"

\* The processed weight events whose label holds a number, and the number.
ParsableWeights ==
    {k \in 1..processed :
        /\ Kind(k) = "WeightRecorded"
        /\ ReSearchLbs(Chron[k].action) # None
        /\ Float(ReSearchLbs(Chron[k].action)[1]) # None}
WeightAt(k) == Float(ReSearchLbs(Chron[k].action)[1])[1]

\* The weight a visit opened at position i carries at position j: the last
\* one recorded in between, if any.
LastWeightBetween(i, j) ==
    LET W == {k \in ParsableWeights : i < k /\ k < j}
    IN  IF W = {} THEN None
        ELSE Some(WeightAt(CHOOSE k \in W : \A q \in W : q <= k))

(***************************************************************************)
(* C14: every weight event with a parsable weight w appends w to the       *)
(* global weight list, whether or not a visit is open, so the list is the  *)
(* weights of the parsable weight events processed, in order.  If a visit  *)
(* is open the event sets the visit's weight to w, replacing an earlier    *)
(* one: a finalized visit carries the last weight recorded between its     *)
(* detection and its CycleCompleted, and none if there was none; a weight  *)
(* recorded while no visit is open is attached to no visit.                *)
(***************************************************************************)
C14_WeightState ==
    /\ weights = [r \in 1..Cardinality(ParsableWeights) |->
                     WeightAt(Ascending(ParsableWeights)[r])]
    /\ \A r \in 1..Len(visits) :
          visits[r].weight_lbs =
              LastWeightBetween(Ascending(Completed)[r], FinalizedAt(r))
    /\ current_visit # None =>
          current_visit[1].weight_lbs =
              LastWeightBetween(CHOOSE i \in StillOpen : TRUE, processed + 1)

C14_WeightStep ==
    (/\ InLoop
     /\ Kind(processed + 1) = "WeightRecorded"
     /\ ReSearchLbs(Activity.action) # None
     /\ Float(ReSearchLbs(Activity.action)[1]) # None) =>
        /\ weights' = Append(weights, WeightAt(processed + 1))
        /\ visits' = visits
        /\ current_visit = None => current_visit' = None
        /\ current_visit # None =>
              current_visit' =
                  Some([current_visit[1] EXCEPT
                           !.weight_lbs = Some(WeightAt(processed + 1))])

C14_WeightsRecorded == [](C14_WeightState) /\ [][C14_WeightStep]_vars

\* A weight was recorded before any detection, then two different weights
\* during a visit, which was finalized with the second of them.
C14_Witness ==
    /\ Len(visits) = 1
    /\ weights = <<103, 103, 100>>
    /\ visits[1].weight_lbs = Some(100)
    /\ Kind(1) = "WeightRecorded"

(***************************************************************************)
(* C15: a visit is immutable once appended.  No event of any kind changes  *)
(* the timestamp, weight or duration of a visit already in the list, and   *)
(* no event removes or reorders entries: after every step the old list is  *)
(* a prefix of the new one.                                                *)
(***************************************************************************)
C15_VisitsFrozen ==
    [][/\ Len(visits') >= Len(visits)
       /\ \A k \in 1..Len(visits) :
             /\ visits'[k].timestamp = visits[k].timestamp
             /\ visits'[k].weight_lbs = visits[k].weight_lbs
             /\ visits'[k].clean_cycle_duration_seconds =
                    visits[k].clean_cycle_duration_seconds]_vars

\* A visit without weight and duration was appended second in the log; a
\* weight and a cycle start came after it and left it as it was.
C15_Witness ==
    /\ processed = 4
    /\ Kind(1) = "CatDetected" /\ Kind(2) = "CycleCompleted"
    /\ Kind(3) = "WeightRecorded" /\ Kind(4) = "CycleStarted"
    /\ weights # <<>> /\ cycle_start_time # None
    /\ visits = <<CatVisit(Chron[1].timestamp)>>

(***************************************************************************)
(* C16: a SensorInterrupted event adds one to the interruption counter and *)
(* leaves the open visit, the recorded cycle start, the visit list, the    *)
(* weight list and the completed-cycle counter unchanged, so the counter   *)
(* is the number of SensorInterrupted events processed; an Unrecognized    *)
(* event leaves all reducer state unchanged.                               *)
(***************************************************************************)
C16_InterruptionCount ==
    sensor_interruptions =
        Cardinality({i \in 1..processed : Kind(i) = "SensorInterrupted"})

C16_FrameStep ==
    /\ (InLoop /\ Kind(processed + 1) = "SensorInterrupted") =>
          /\ sensor_interruptions' = sensor_interruptions + 1
          /\ current_visit' = current_visit
          /\ cycle_start_time' = cycle_start_time
          /\ visits' = visits
          /\ weights' = weights
          /\ clean_cycles_completed' = clean_cycles_completed
    /\ (InLoop /\ Kind(processed + 1) = "Unrecognized") =>
          /\ sensor_interruptions' = sensor_interruptions
          /\ current_visit' = current_visit
          /\ cycle_start_time' = cycle_start_time
          /\ visits' = visits
          /\ weights' = weights
          /\ clean_cycles_completed' = clean_cycles_completed

C16_InterruptionFrame == [](C16_InterruptionCount) /\ [][C16_FrameStep]_vars

\* An interruption and an unrecognized event came while a visit was open and
\* a cycle start recorded: both are still there.
C16_Witness ==
    /\ processed = 4
    /\ Kind(3) = "SensorInterrupted" /\ Kind(4) = "Unrecognized"
    /\ sensor_interruptions = 1
    /\ current_visit # None
    /\ cycle_start_time # None

\* The time-of-day labels, in the order of the periods of the day.
TimeOfDayLabels ==
    <<"Night Owl", "Early Bird", "Afternoon Aristocat", "Evening Eliminator">>

(***************************************************************************)
(* C17: time-of-day dominance.  The visits are partitioned by local hour   *)
(* into Night [0,6), Morning [6,12), Afternoon [12,18) and Evening         *)
(* [18,24); the label of the partition with the greatest count is the      *)
(* first personality trait, a tie going to the first such partition in the *)
(* order Night, Morning, Afternoon, Evening.  There is no time-of-day      *)
(* label when there are no visits and exactly one when there is a visit.   *)
(***************************************************************************)
C17_TimeOfDayLabel ==
    Returned =>
        LET vs == stats[1].visits
            traits == stats[1].personality_traits
            hour(k) == ((vs[k].timestamp - 8 * 3600) \div 3600) % 24
            count(p) ==
                Cardinality({k \in 1..Len(vs) :
                                6 * (p - 1) <= hour(k) /\ hour(k) < 6 * p})
            dominant ==
                CHOOSE p \in 1..4 :
                    /\ \A q \in 1..4 : count(q) <= count(p)
                    /\ \A q \in 1..(p - 1) : count(q) < count(p)
            labelled ==
                {k \in 1..Len(traits) :
                    \E p \in 1..4 : traits[k] = TimeOfDayLabels[p]}
        IN  /\ count(1) + count(2) + count(3) + count(4) = Len(vs)
            /\ vs = <<>> => labelled = {}
            /\ vs # <<>> =>
                  /\ labelled = {1}
                  /\ traits[1] = TimeOfDayLabels[dominant]

\* Two visits, one in the morning and one in the evening, none at night: the
\* tie goes to the morning.
C17_Witness ==
    /\ Returned
    /\ Len(stats[1].visits) = 2
    /\ stats[1].visits[1].timestamp = 61200
    /\ stats[1].visits[2].timestamp = 360000
    /\ stats[1].personality_traits[1] = "Early Bird"

(***************************************************************************)
(* C18: after every processed event the visit list is no longer than       *)
(* clean_cycles_completed and no longer than the number of CatDetected     *)
(* events processed.  Each CycleCompleted appends at most one visit, and   *)
(* each CatDetected contributes to at most one visit: the visits are the   *)
(* visits of different detections, in order.                               *)
(***************************************************************************)
C18_VisitCount ==
    /\ Len(visits) <= clean_cycles_completed
    /\ Len(visits) <=
          Cardinality({i \in 1..processed : Kind(i) = "CatDetected"})
    /\ \E source \in [1..Len(visits) -> 1..processed] :
          /\ \A r \in 1..Len(visits) :
                /\ Kind(source[r]) = "CatDetected"
                /\ Chron[source[r]].timestamp = visits[r].timestamp
          /\ \A r \in 1..Len(visits), s \in 1..Len(visits) :
                r < s => source[r] < source[s]

C18_AtMostOneStep == Len(visits') <= Len(visits) + 1

C18_VisitsBounded == [](C18_VisitCount) /\ [][C18_AtMostOneStep]_vars

\* Two detections and two completed cycles, and one visit only: the first
\* detection was replaced and the second cycle found no open visit.
C18_Witness ==
    /\ processed = 4
    /\ Kind(1) = "CatDetected" /\ Kind(2) = "CatDetected"
    /\ Kind(3) = "CycleCompleted" /\ Kind(4) = "CycleCompleted"
    /\ clean_cycles_completed = 2
    /\ Len(visits) = 1

(***************************************************************************)
(* C19: with events processed in chronological order, a finalized visit    *)
(* has a clean cycle duration exactly when a CycleStarted occurred since   *)
(* the previous CycleCompleted (or since the start of the log).  The       *)
(* duration is the timestamp of the finalizing CycleCompleted minus that   *)
(* of the most recent such CycleStarted, and is never negative.  A         *)
(* CatDetected does not clear the cycle start, so the CycleStarted used    *)
(* may precede the visit's own CatDetected.                                *)
(***************************************************************************)
C19_DurationFromCycleStart ==
    \A r \in 1..Len(visits) :
        LET j == FinalizedAt(r)
            duration == visits[r].clean_cycle_duration_seconds
        IN  /\ (duration # None) <=> (CycleStartsBefore(j) # {})
            /\ duration # None =>
                  /\ duration[1] =
                        Chron[j].timestamp - Chron[StartUsed(j)].timestamp
                  /\ duration[1] >= 0

\* The cycle start came before the detection: the duration of the visit is
\* longer than the visit itself.
C19_Witness ==
    /\ processed = 3
    /\ Kind(1) = "CycleStarted" /\ Kind(2) = "CatDetected"
    /\ Kind(3) = "CycleCompleted"
    /\ Len(visits) = 1
    /\ visits[1].clean_cycle_duration_seconds =
          Some(Chron[3].timestamp - Chron[1].timestamp)
    /\ visits[1].clean_cycle_duration_seconds[1] >
          Chron[3].timestamp - visits[1].timestamp

====
